---- MODULE Spec2Model ----
(***************************************************************************)
(* The Group detail view of the RBAC UI (smart-components/group/group.js,  *)
(* kept as src/unnamed/part_002) together with the parts of the system it  *)
(* talks to: the redux store slice `groupReducer`, the promise middleware  *)
(* that turns an action's payload promise into pending / fulfilled /       *)
(* rejected dispatches, and the RBAC backend.  The view is translated from *)
(* its source; the store, the middleware and the backend are not part of   *)
(* the available sources and follow the specification's sections 4.1, 4.2, *)
(* 5 and 7.                                                                *)
(*                                                                         *)
(* Beside the view the module holds smaller parts, each with a             *)
(* specification of its own: the inventory action creators with their      *)
(* helper (InventorySpec, DetailsSpec), processResourceDefinitions         *)
(* (HelperSpec), the pagination and filter state of a listing              *)
(* (ListingSpec), a Storybook story of the view under the context mocks of *)
(* docs/PermissionsContext (StorySpec) and the view's render as a function *)
(* of the store (RenderSpec).  FixedRouteSpec is the view without the      *)
(* restore flow and without route changes.  While one part runs the others *)
(* rest.                                                                   *)
(***************************************************************************)
EXTENDS Naturals, FiniteSets, Sequences, TLC

\* Bounds of the model.
MaxRequests == 4    \* network calls issued from one idle moment of the network to the next
MaxActions == 2     \* inventory actions created
MaxIds == 3         \* length of the list given to fetchInventoryGroupsDetails
MaxPage == 2        \* pages of a listing after the first
MaxDefinitions == 2 \* resource definitions given to processResourceDefinitions
MaxValues == 2      \* length of the array an attributeFilter.value holds

\* Identifiers.
DEFAULT_ACCESS_GROUP_ID == "default-access"
BAD_UUID == "bad uuid"
UNDEFINED == "undefined"
GENERIC_ERROR == "request failed"

SYSTEM_UUID == "sys"     \* the backend-managed platform default group
CUSTOM_UUID == "cust"    \* the user-customized copy of the platform default group
ADMIN_UUID == "adm"      \* the admin default group
PLAIN_UUID == "g1"       \* an ordinary group

\* The routes the model visits: the sentinel, and the customized default group by its own
\* identifier, which no group has while the backend holds the system default group.
RouteIds == {DEFAULT_ACCESS_GROUP_ID, CUSTOM_UUID}

\* Paths (specification, 6).
NO_PATH == <<>>
GroupDetailRoles(gid) == <<"groups", gid, "roles">>

VARIABLES
  mounted,                      \* the Group view is on screen
  groupId,                      \* useParams().groupId
  isResetWarningVisible,        \* useState, line 71
  showDefaultGroupChangedInfo,  \* useState, line 73
  appObjectId,                  \* the value last given to chrome.appObjectId
  groupReducer,                 \* the store slice the view selects from
  requests,                     \* network calls in flight
  nextId,                       \* the number after the last network call's: the calls are
                                \* numbered in the order they are issued, from 1 again
                                \* when one is issued with none in flight
  server,                       \* identifiers of the groups the backend holds
  last                          \* the step taken last

vars == <<mounted, groupId, isResetWarningVisible, showDefaultGroupChangedInfo,
          appObjectId, groupReducer, requests, nextId, server, last>>

\* The inventory actions (redux/actions/inventory-actions, helpers/role/inventory-helper)
\* and the store slice they feed.
VARIABLES
  network,            \* the calls made to the inventory API, in the order they were made
  actions,            \* the action descriptors created, in the order they were created
  log,                \* what the store's dispatcher has seen, in order: <<"dispatch", i>>
                      \* for actions[i], <<"deliver", i>> for the resolution of its payload
  inventoryReducer,   \* the state of each entity family of the slice
  callerIds           \* the array the last caller of fetchInventoryGroupsDetails passed,
                      \* as the caller holds it after the call

inventoryVars == <<network, actions, log, inventoryReducer, callerIds>>

\* A call of processResourceDefinitions (helpers/role/inventory-helper).
VARIABLES
  helperCall          \* [resourceDefinitions, done, returned]

helperVars == <<helperCall>>

\* A listing of one entity family: its pagination and filter state in the store
\* (specification, 3).
VARIABLES
  listing,            \* [filters, offset, limit]
  requested           \* the pages the user has asked for: <<filters, offset>>

listingVars == <<listing, requested>>

\* The Group view rendered on its own: as a Storybook story under the context mocks
\* (docs/PermissionsContext), or over a given store and local state.
VARIABLES
  story,              \* the story: parameters (permissions, chrome, featureFlags) and args;
                      \* or the store slice and the local state the view is given
  rendered            \* what the decorator and the mocked hooks gave the story's component;
                      \* or what the view put on screen

storyVars == <<story, rendered>>

\* The variables outside one part of the model.
outsideGroup == <<inventoryVars, helperVars, listingVars, storyVars>>
outsideInventory == <<vars, helperVars, listingVars, storyVars>>
outsideHelper == <<vars, inventoryVars, listingVars, storyVars>>
outsideListing == <<vars, inventoryVars, helperVars, storyVars>>
outsideStory == <<vars, inventoryVars, helperVars, listingVars>>

----------------------------------------------------------------------------
\* Data

\* A group as the backend returns it.
GroupRecord(uuid) ==
  [uuid |-> uuid,
   platform_default |-> uuid \in {SYSTEM_UUID, CUSTOM_UUID},
   system |-> uuid = SYSTEM_UUID,
   admin_default |-> uuid = ADMIN_UUID]

\* The empty group object the store starts with.
NoGroup ==
  [uuid |-> UNDEFINED, platform_default |-> FALSE, system |-> FALSE, admin_default |-> FALSE]

Pending == [status |-> "pending", data |-> NoGroup]

NoRequest == [id |-> 0, kind |-> "none", arg |-> UNDEFINED, origin |-> "none", own |-> FALSE]

\* A request without its response: what `last` remembers of it.
Descriptor(r) ==
  [id |-> r.id, kind |-> r.kind, arg |-> r.arg, origin |-> r.origin, own |-> r.own]

\* What `last` remembers of a step: the handler ("SetState" for one that only sets a
\* state of the view), the call it was about and how that call
\* ended, whether the effect ran, the path the step gave to navigate(), whether the step
\* put a failure banner on screen, and whether it overwrote the payload of a call issued
\* later for the same group.
Event(kind, req, outcome, ran, old, new) ==
  [kind |-> kind, req |-> req, outcome |-> outcome, effect |-> ran,
   navigate |-> new.navigated,
   notified |-> new.notified,
   raced |-> /\ kind = "Settle" /\ req.kind = "fetchGroup" /\ outcome = "ok"
             /\ old.groupReducer.selectedFrom > req.id
             /\ old.groupReducer.selectedGroup.uuid = req.arg]

\* The program's state as one value, so that a handler is a function on it.
Cur ==
  [mounted |-> mounted, groupId |-> groupId, navigated |-> NO_PATH, notified |-> FALSE,
   isResetWarningVisible |-> isResetWarningVisible,
   showDefaultGroupChangedInfo |-> showDefaultGroupChangedInfo,
   appObjectId |-> appObjectId, groupReducer |-> groupReducer,
   requests |-> requests, nextId |-> nextId,
   server |-> server]

Commit(s) ==
  /\ mounted' = s.mounted
  /\ groupId' = s.groupId
  /\ isResetWarningVisible' = s.isResetWarningVisible
  /\ showDefaultGroupChangedInfo' = s.showDefaultGroupChangedInfo
  /\ appObjectId' = s.appObjectId
  /\ groupReducer' = s.groupReducer
  /\ requests' = s.requests
  /\ nextId' = s.nextId

WithinBounds(s) == s.nextId <= MaxRequests + 1

\* The numbers only order the calls in flight: a call issued with none in flight is call 1
\* and the payload in the store then counts as that of an earlier call.
Renumber(s) ==
  IF s.requests = {}
    THEN [s EXCEPT !.nextId = 1, !.groupReducer.selectedFrom = 0]
    ELSE s

----------------------------------------------------------------------------
\* The store slice and the promise middleware (specification, 4.1, 4.2 and 7)

\* idle -> loading: the pending dispatch of a fetch of the selected group.
reducePending(gr, kind) ==
  IF kind = "fetchGroup"
    THEN [gr EXCEPT !.isRecordLoading = TRUE, !.error = UNDEFINED]
    ELSE gr

\* Mutant of reduceFulfilled: the payload of a call issued before the one whose payload
\* the slice holds is dropped.
reduceFulfilledLatestIssued(gr, r) ==
  CASE r.kind = "fetchGroup" ->
         IF gr.selectedFrom > r.id
           THEN [gr EXCEPT !.isRecordLoading = FALSE]
           ELSE [gr EXCEPT !.isRecordLoading = FALSE, !.error = UNDEFINED,
                           !.selectedGroup = r.resp.data, !.selectedFrom = r.id]
    [] r.kind = "fetchSystemGroup" -> [gr EXCEPT !.systemGroup = r.resp.data]
    [] OTHER -> gr

\* Mutant of reduceFulfilled: any fulfilled fetch of the family ends the loading state.
reduceFulfilledEndsLoading(gr, r) ==
  CASE r.kind = "fetchGroup" ->
         [gr EXCEPT !.isRecordLoading = FALSE, !.error = UNDEFINED,
                    !.selectedGroup = r.resp.data, !.selectedFrom = r.id]
    [] r.kind = "fetchSystemGroup" ->
         [gr EXCEPT !.isRecordLoading = FALSE, !.systemGroup = r.resp.data]
    [] OTHER -> gr

\* loading -> loaded: the payload supersedes what the slice held.
reduceFulfilled(gr, r) ==
  CASE r.kind = "fetchGroup" ->
         [gr EXCEPT !.isRecordLoading = FALSE, !.error = UNDEFINED,
                    !.selectedGroup = r.resp.data, !.selectedFrom = r.id]
    [] r.kind = "fetchSystemGroup" -> [gr EXCEPT !.systemGroup = r.resp.data]
    [] OTHER -> gr

\* loading -> errored: the sentinel for an unknown identifier, a generic error otherwise.
reduceRejected(gr, r) ==
  IF r.kind = "fetchGroup"
    THEN [gr EXCEPT !.isRecordLoading = FALSE,
                    !.error = IF r.resp.status = "notfound" THEN BAD_UUID ELSE GENERIC_ERROR]
    ELSE gr

\* A generic request failure is surfaced as a banner; the not-found case has its page.
notify(r) == r.resp.status = "fail"

\* dispatch(action): the network call is issued at once and the pending state is set.
\* `by` says whether the callbacks chained on the call belong to the view on screen.
Dispatch(s, kind, arg, origin, by) ==
  LET n == Renumber(s)
  IN  [n EXCEPT !.requests = @ \cup {[id |-> n.nextId, kind |-> kind, arg |-> arg,
                                       origin |-> origin, own |-> by, seen |-> n.server,
                                       resp |-> Pending]},
                !.nextId = @ + 1,
                !.groupReducer = reducePending(@, kind)]

\* The resolution of a call reaches the dispatcher.
Resolve(s, r) ==
  [s EXCEPT !.requests = {q \in @ : q.id # r.id},
            !.groupReducer = IF r.resp.status = "ok" THEN reduceFulfilled(@, r)
                                                     ELSE reduceRejected(@, r),
            !.notified = notify(r)]

----------------------------------------------------------------------------
\* The Group view

isPlatformDefault(gid) == gid = DEFAULT_ACCESS_GROUP_ID

\* Mutants of groupExists: the error is compared with a message text, the comparison is
\* inverted, any error counts as "no such group".
groupExistsByMessage(gr) == gr.error # "Group not found"
groupExistsInverted(gr) == gr.error = BAD_UUID
groupExistsNoError(gr) == gr.error = UNDEFINED

groupExists(gr) == gr.error # BAD_UUID

systemGroupUuid(gr) == gr.systemGroup.uuid

group(gr) == gr.selectedGroup

isGroupLoading(gr) == gr.isRecordLoading

\* Mutant of currId: the route's groupId is fetched as it is.
currIdFromRoute(s) == s.groupId

\* The identifier the effect fetches.
currId(s) ==
  IF ~isPlatformDefault(s.groupId) THEN s.groupId ELSE systemGroupUuid(s.groupReducer)

\* Mutant of effectCleanup: the calls the effect made are aborted.
effectCleanupAborts(s) ==
  [s EXCEPT !.appObjectId = UNDEFINED,
            !.requests = {r \in @ : ~(r.own /\ r.origin = "effect")}]

\* Mutant of effectCleanup: the effect returns no cleanup.
effectCleanupNone(s) == s

\* The effect's cleanup.
effectCleanup(s) == [s EXCEPT !.appObjectId = UNDEFINED]

\* Mutant of useEffect: the group is fetched for the sentinel route only.
useEffectSentinelOnly(s) ==
  LET s1 == Dispatch(s, "fetchSystemGroup", UNDEFINED, "effect", TRUE)
      id == currId(s)
  IN  IF id # UNDEFINED /\ isPlatformDefault(s.groupId)
        THEN [Dispatch(s1, "fetchGroup", id, "effect", TRUE) EXCEPT !.appObjectId = id]
        ELSE s1

\* Mutant of useEffect: a group whose fetch is in flight is not fetched again.
useEffectUnlessInFlight(s) ==
  LET s1 == Dispatch(s, "fetchSystemGroup", UNDEFINED, "effect", TRUE)
      id == currId(s)
  IN  IF id # UNDEFINED /\ ~\E r \in s.requests : r.kind = "fetchGroup" /\ r.arg = id
        THEN [Dispatch(s1, "fetchGroup", id, "effect", TRUE) EXCEPT !.appObjectId = id]
        ELSE s1

\* The effect's body.
useEffect(s) ==
  LET s1 == Dispatch(s, "fetchSystemGroup", UNDEFINED, "effect", TRUE)
      id == currId(s)
  IN  IF id # UNDEFINED
        THEN [Dispatch(s1, "fetchGroup", id, "effect", TRUE) EXCEPT !.appObjectId = id]
        ELSE s1

\* Mutant of effectDeps: the selected group is a dependency too.
effectDepsWithGroup(s) == <<s.groupId, systemGroupUuid(s.groupReducer), group(s.groupReducer)>>

\* The effect's dependency list.
effectDeps(s) == <<s.groupId, systemGroupUuid(s.groupReducer)>>

\* The effect runs after the first render and after a render that changed a dependency.
effectRuns(old, new) == new.mounted /\ (~old.mounted \/ effectDeps(old) # effectDeps(new))

\* The render after a handler, with the effect (and the previous run's cleanup) it runs.
Rerender(old, new) ==
  IF ~effectRuns(old, new) THEN new
  ELSE IF ~old.mounted THEN useEffect(new)
  ELSE useEffect(effectCleanup(new))

\* navigate(path): the router takes the route's groupId from the path.
navigate(s, path) == [s EXCEPT !.groupId = path[2], !.navigated = path]

\* Mutants of onConfirm: the re-fetch is dispatched beside the delete instead of after it;
\* the navigation is left to the callbacks chained on the delete.
onConfirmEager(s) ==
  LET s1 == Dispatch(s, "removeGroups", systemGroupUuid(s.groupReducer), "restoreDelete", TRUE)
      s2 == Dispatch(s1, "fetchSystemGroup", UNDEFINED, "restoreRefetch", TRUE)
      s3 == [s2 EXCEPT !.isResetWarningVisible = FALSE]
  IN  navigate(s3, GroupDetailRoles(DEFAULT_ACCESS_GROUP_ID))
onConfirmNavigatesLater(s) ==
  LET s1 == Dispatch(s, "removeGroups", systemGroupUuid(s.groupReducer), "restoreDelete", TRUE)
  IN  [s1 EXCEPT !.isResetWarningVisible = FALSE]

\* Mutant of onConfirm: the modal is left open.
onConfirmKeepsModal(s) ==
  LET s1 == Dispatch(s, "removeGroups", systemGroupUuid(s.groupReducer), "restoreDelete", TRUE)
  IN  navigate(s1, GroupDetailRoles(DEFAULT_ACCESS_GROUP_ID))

\* WarningModal onConfirm.
onConfirm(s) ==
  LET s1 == Dispatch(s, "removeGroups", systemGroupUuid(s.groupReducer), "restoreDelete", TRUE)
      s2 == [s1 EXCEPT !.isResetWarningVisible = FALSE]
  IN  navigate(s2, GroupDetailRoles(DEFAULT_ACCESS_GROUP_ID))

\* The callback chained on the delete: the re-fetch of the system group.
afterRemove(s, r) ==
  IF r.origin = "restoreDelete" /\ r.resp.status = "ok"
    THEN Dispatch(s, "fetchSystemGroup", UNDEFINED, "restoreRefetch", r.own)
    ELSE s

\* Mutant of afterRefetch: the banner is switched on.
afterRefetchShows(s, r) ==
  IF r.origin = "restoreRefetch" /\ r.resp.status = "ok" /\ r.own
    THEN [s EXCEPT !.showDefaultGroupChangedInfo = TRUE]
    ELSE s

\* Mutant of afterRefetch: the flag is cleared however the re-fetch ends.
afterRefetchFinally(s, r) ==
  IF r.origin = "restoreRefetch" /\ r.own
    THEN [s EXCEPT !.showDefaultGroupChangedInfo = FALSE]
    ELSE s

\* The callback chained on the re-fetch: setShowDefaultGroupChangedInfo(false) in the
\* view that confirmed, which is a no-op once that view has unmounted.
afterRefetch(s, r) ==
  IF r.origin = "restoreRefetch" /\ r.resp.status = "ok" /\ r.own
    THEN [s EXCEPT !.showDefaultGroupChangedInfo = FALSE]
    ELSE s

\* Mutant of Render: the actions menu is withheld for the platform default group only.
RenderMenuForAdminDefault(s) ==
  LET gr == s.groupReducer
      g == group(gr)
  IN  IF groupExists(gr)
        THEN [page |-> "detail",
              title |-> IF ~isGroupLoading(gr) THEN g.uuid ELSE UNDEFINED,
              changedIcon |-> ~isGroupLoading(gr) /\ g.platform_default /\ ~g.system,
              restore |-> g.platform_default /\ ~g.system,
              dropdown |-> ~g.platform_default,
              banner |-> s.showDefaultGroupChangedInfo,
              toolbar |-> TRUE,
              tabs |-> TRUE,
              outlet |-> TRUE,
              modal |-> s.isResetWarningVisible]
        ELSE [page |-> "notFound",
              title |-> UNDEFINED,
              changedIcon |-> FALSE,
              restore |-> FALSE,
              dropdown |-> FALSE,
              banner |-> FALSE,
              toolbar |-> FALSE,
              tabs |-> FALSE,
              outlet |-> FALSE,
              modal |-> s.isResetWarningVisible]

\* What the view puts on screen.
Render(s) ==
  LET gr == s.groupReducer
      g == group(gr)
  IN  IF groupExists(gr)
        THEN [page |-> "detail",
              title |-> IF ~isGroupLoading(gr) THEN g.uuid ELSE UNDEFINED,
              changedIcon |-> ~isGroupLoading(gr) /\ g.platform_default /\ ~g.system,
              restore |-> g.platform_default /\ ~g.system,
              dropdown |-> ~(g.platform_default \/ g.admin_default),
              banner |-> s.showDefaultGroupChangedInfo,
              toolbar |-> TRUE,
              tabs |-> TRUE,
              outlet |-> TRUE,
              modal |-> s.isResetWarningVisible]
        ELSE [page |-> "notFound",
              title |-> UNDEFINED,
              changedIcon |-> FALSE,
              restore |-> FALSE,
              dropdown |-> FALSE,
              banner |-> FALSE,
              toolbar |-> FALSE,
              tabs |-> FALSE,
              outlet |-> FALSE,
              modal |-> s.isResetWarningVisible]

----------------------------------------------------------------------------
\* The backend

\* The identifier of the platform default group the backend holds.
defaultUuid(srv) == IF CUSTOM_UUID \in srv THEN CUSTOM_UUID ELSE SYSTEM_UUID

Failure == [status |-> "fail", data |-> NoGroup]

\* The backend's answer to a call when it holds the groups srv.
respond(srv, r) ==
  CASE r.kind = "fetchGroup" ->
         IF r.arg \in srv THEN [status |-> "ok", data |-> GroupRecord(r.arg)]
                          ELSE [status |-> "notfound", data |-> NoGroup]
    [] r.kind = "fetchSystemGroup" ->
         [status |-> "ok", data |-> GroupRecord(defaultUuid(srv))]
    [] OTHER ->
         IF r.arg \in srv /\ r.arg # SYSTEM_UUID THEN [status |-> "ok", data |-> NoGroup]
                                                 ELSE [status |-> "fail", data |-> NoGroup]

\* Deleting the customized default group regenerates the system default group.
afterDelete(srv, uuid) ==
  IF uuid = CUSTOM_UUID THEN (srv \ {CUSTOM_UUID}) \cup {SYSTEM_UUID} ELSE srv \ {uuid}

\* The resolutions a call in flight can have.  A fetch is answered from the groups the
\* backend held at some moment between the call and its resolution: the backend changes
\* only by the restore's delete, so that is what it held when the call was issued or what
\* it holds now.  A delete resolves with what the backend did.  Any call can fail.
Responses(srv, r) ==
  IF r.kind = "removeGroups"
    THEN {r.resp} \ {Pending}
    ELSE {Failure} \cup {respond(x, r) : x \in {r.seen, srv}}

----------------------------------------------------------------------------
\* The inventory actions

FETCH_INVENTORY_GROUPS == "FETCH_INVENTORY_GROUPS"
FETCH_INVENTORY_GROUPS_DETAILS == "FETCH_INVENTORY_GROUPS_DETAILS"
ActionTypes == {FETCH_INVENTORY_GROUPS, FETCH_INVENTORY_GROUPS_DETAILS}

\* What a caller may put in the groupsIds array: strings, null, undefined.
String(chars) == [type |-> "string", chars |-> chars]
Null == [type |-> "null", chars |-> <<>>]
Undefined == [type |-> "undefined", chars |-> <<>>]
Items == {String(<<>>), String(<<"a">>), String(<<"b", "c">>), Null, Undefined}

\* The arrays of at most n items.
Arrays(n) == UNION {[1..k -> Items] : k \in 0..n}

\* The inputs of the actions in the runs of the whole pipeline.
SampleIds == {<<>>,
              <<String(<<>>), Undefined>>,
              <<String(<<"a">>), String(<<>>), String(<<"a">>)>>}
SampleConfigs == {[name |-> UNDEFINED], [name |-> "adm"]}
SamplePermissions == <<"inventory:groups:read">>

\* A call to the inventory API, pending.
Call(api, params) == [api |-> api, params |-> params, status |-> "pending"]

\* Mutant of getInventoryGroups: the call is made a second time.
getInventoryGroupsAgain(net, params) ==
  Append(Append(net, Call("apiResourceTypeGetResourceTypeGroupsList", params)),
         Call("apiResourceTypeGetResourceTypeGroupsList", params))

\* getInventoryGroups: the call is made when the helper is called.
getInventoryGroups(net, params) ==
  Append(net, Call("apiResourceTypeGetResourceTypeGroupsList", params))

\* getInventoryGroupsDetails
getInventoryGroupsDetails(net, params) ==
  Append(net, Call("apiGroupGetGroupsById", params))

\* Mutant of hasLength: (item) => item !== ''
hasLengthNotEmptyString(item) == item # String(<<>>)

\* (item) => item?.length > 0
hasLength(item) ==
  IF item.type \in {"null", "undefined"} THEN FALSE ELSE Len(item.chars) > 0

\* The action creators: the network after the call and the descriptor returned, whose
\* payload is the promise of the call made last.
fetchInventoryGroups(net, permissions, config) ==
  LET net1 == getInventoryGroups(net, config)
  IN  [network |-> net1,
       action |-> [type |-> FETCH_INVENTORY_GROUPS,
                   meta |-> [permissions |-> permissions, config |-> config],
                   payload |-> Len(net1)]]

\* Mutant of fetchInventoryGroupsDetails: meta holds the list that is sent.
fetchInventoryGroupsDetailsMetaSent(net, groupsIds) ==
  LET net1 == getInventoryGroupsDetails(net, [groupIdList |-> SelectSeq(groupsIds, hasLength)])
  IN  [network |-> net1,
       action |-> [type |-> FETCH_INVENTORY_GROUPS_DETAILS,
                   meta |-> [groupsIds |-> SelectSeq(groupsIds, hasLength)],
                   payload |-> Len(net1)]]

\* Mutant of fetchInventoryGroupsDetails: no call is made for a list without identifiers.
fetchInventoryGroupsDetailsUnlessEmpty(net, groupsIds) ==
  LET ids == SelectSeq(groupsIds, hasLength)
      net1 == IF ids = <<>> THEN net ELSE getInventoryGroupsDetails(net, [groupIdList |-> ids])
  IN  [network |-> net1,
       action |-> [type |-> FETCH_INVENTORY_GROUPS_DETAILS,
                   meta |-> [groupsIds |-> groupsIds],
                   payload |-> IF ids = <<>> THEN 0 ELSE Len(net1)]]

fetchInventoryGroupsDetails(net, groupsIds) ==
  LET net1 == getInventoryGroupsDetails(net, [groupIdList |-> SelectSeq(groupsIds, hasLength)])
  IN  [network |-> net1,
       action |-> [type |-> FETCH_INVENTORY_GROUPS_DETAILS,
                   meta |-> [groupsIds |-> groupsIds],
                   payload |-> Len(net1)]]

\* The dispatcher's history.
Dispatched == {e[2] : e \in {log[k] : k \in 1..Len(log)} \cap ({"dispatch"} \X (1..Len(actions)))}
Delivered == {e[2] : e \in {log[k] : k \in 1..Len(log)} \cap ({"deliver"} \X (1..Len(actions)))}

\* The slice: idle -> loading -> (loaded | errored), per entity family.
inventoryPending(ir, type) == [ir EXCEPT ![type] = "loading"]
inventorySettled(ir, type, status) ==
  [ir EXCEPT ![type] = IF status = "ok" THEN "loaded" ELSE "errored"]

\* Nothing created, nothing dispatched.
InventoryIdle ==
  /\ network = <<>>
  /\ actions = <<>>
  /\ log = <<>>
  /\ inventoryReducer = [type \in ActionTypes |-> "idle"]
  /\ callerIds = <<>>

----------------------------------------------------------------------------
\* processResourceDefinitions

\* A JavaScript array.
ArrayOf(items) == [type |-> "array", items |-> items]

\* What an attributeFilter.value can be: a string, null, or an array of at most n items,
\* each a string, null or an array itself.
Scalars == {String(<<"a">>), Null}
ArrayItems == Scalars \cup {ArrayOf(<<String(<<"a">>)>>)}
Values(n) == Scalars \cup {ArrayOf(items) : items \in UNION {[1..k -> ArrayItems] : k \in 0..n}}

\* The resource definitions of a role's permission, and what a caller may pass for them.
ResourceDefinitions == [attributeFilter : [value : Values(MaxValues)]]
Arguments ==
  {Null, Undefined}
    \cup {ArrayOf(defs) : defs \in UNION {[1..k -> ResourceDefinitions] : k \in 0..MaxDefinitions}}

\* The condition of `x ? ... : ...` for an array, null or undefined.
truthy(x) == x.type \notin {"null", "undefined"}

\* array.map((definition) => definition.attributeFilter.value)
mapValue(array) == [k \in 1..Len(array) |-> array[k].attributeFilter.value]

\* lodash/flatten: the array flattened a single level deep.
RECURSIVE flatten(_)
flatten(array) ==
  IF array = <<>> THEN <<>>
  ELSE (IF Head(array).type = "array" THEN Head(array).items ELSE <<Head(array)>>)
       \o flatten(Tail(array))

\* Mutant of processResourceDefinitions: the values are flattened two levels deep.
processResourceDefinitionsDeep(rd) ==
  IF truthy(rd) THEN flatten(flatten(mapValue(rd.items))) ELSE <<>>

processResourceDefinitions(rd) ==
  IF truthy(rd) THEN flatten(mapValue(rd.items)) ELSE <<>>

\* The helper is not being called.
HelperIdle == helperCall = <<>>

----------------------------------------------------------------------------
\* A listing (specification, 3 and 8)

Limit == 20
NoFilters == [name |-> ""]
FilterSets == {NoFilters, [name |-> "adm"], [name |-> "g"]}
Offsets == {k * Limit : k \in 0..MaxPage}

\* Mutant of setFilters: the offset is kept.
setFiltersKeepsOffset(l, filters) == [l EXCEPT !.filters = filters]

\* The reducer: a change of the filters resets the offset, a change of page keeps them.
setFilters(l, filters) == [l EXCEPT !.filters = filters, !.offset = 0]
setPagination(l, offset) == [l EXCEPT !.offset = offset]
resetListing == [filters |-> NoFilters, offset |-> 0, limit |-> Limit]

\* The listing as it is when the user arrives at it.
ListingOpen ==
  /\ listing = resetListing
  /\ requested = {<<NoFilters, 0>>}

\* The user is not at a listing.
ListingIdle ==
  /\ listing = <<>>
  /\ requested = {}

----------------------------------------------------------------------------
\* A story of the Group view under the context mocks

BETA_FLAG == "platform.rbac.group-service-accounts"
STABLE_FLAG == "platform.rbac.group-service-accounts.stable"
Environments == {"prod", "stage", "ci-beta", "PROD", ""}
PermissionNames == {"orgAdmin", "userAccessAdministrator"}

\* An object holding some of the permissions.
Partial == UNION {[names -> BOOLEAN] : names \in SUBSET PermissionNames}

\* { ...a, ...b }
spread(a, b) ==
  [k \in DOMAIN a \cup DOMAIN b |-> IF k \in DOMAIN b THEN b[k] ELSE a[k]]

\* The global decorator's permissions.
decoratorPermissions(parameters, args) ==
  spread(spread([userAccessAdministrator |-> FALSE, orgAdmin |-> FALSE],
                parameters.permissions),
         IF "orgAdmin" \in DOMAIN args THEN [orgAdmin |-> args.orgAdmin] ELSE <<>>)

\* Mutant of isBeta: the environment's name says beta.
isBetaByName(chromeConfig) == chromeConfig.environment \in {"ci-beta", "stage-beta"}

\* The mocked useChrome.
getEnvironment(chromeConfig) == chromeConfig.environment
isProd(chromeConfig) == chromeConfig.environment = "prod"
isBeta(chromeConfig) == chromeConfig.environment # "prod"

\* The mocked useFlag.
useFlag(featureFlags, name) == featureFlags[name]

\* Mutant of enableServiceAccounts: either flag enables the tab.
enableServiceAccountsEitherFlag(beta, featureFlags) ==
  useFlag(featureFlags, BETA_FLAG) \/ useFlag(featureFlags, STABLE_FLAG)

\* Group: enableServiceAccounts and tabItems.
enableServiceAccounts(beta, featureFlags) ==
  \/ beta /\ useFlag(featureFlags, BETA_FLAG)
  \/ ~beta /\ useFlag(featureFlags, STABLE_FLAG)

GroupDetail(gid, tab) == <<"groups", gid, tab>>

tabItems(gid, beta, featureFlags) ==
  <<[eventKey |-> 0, title |-> "Roles", name |-> GroupDetail(gid, "roles"), to |-> "roles"],
    [eventKey |-> 1, title |-> "Members", name |-> GroupDetail(gid, "members"),
     to |-> "members"]>>
  \o (IF enableServiceAccounts(beta, featureFlags)
        THEN <<[eventKey |-> 2, title |-> "Service accounts",
                name |-> GroupDetail(gid, "service-accounts"), to |-> "service-accounts"]>>
        ELSE <<>>)

\* The stories.
Stories ==
  [parameters : [permissions : Partial,
                 chrome : [environment : Environments],
                 featureFlags : [{BETA_FLAG, STABLE_FLAG} -> BOOLEAN]],
   args : Partial]

\* A story before Storybook renders it.
NotRendered == [done |-> FALSE]

\* Storybook is not running.
StoryIdle ==
  /\ story = <<>>
  /\ rendered = <<>>

\* The groups a store can hold: an ordinary group, the platform default group (the
\* backend's or a customized copy), the admin default group.
Groups ==
  {g \in [uuid : {PLAIN_UUID}, platform_default : BOOLEAN, system : BOOLEAN,
          admin_default : BOOLEAN] : ~(g.platform_default /\ g.admin_default)}

\* The Group view over a given store and local state.
Views ==
  [groupReducer : [selectedGroup : Groups, selectedFrom : {0}, isRecordLoading : BOOLEAN,
                   error : {UNDEFINED, BAD_UUID, GENERIC_ERROR}, systemGroup : {NoGroup}],
   showDefaultGroupChangedInfo : BOOLEAN,
   isResetWarningVisible : BOOLEAN]

----------------------------------------------------------------------------
\* Initial state: nothing mounted, an empty store, no call in flight.

GroupInit ==
  /\ mounted = FALSE
  /\ groupId = UNDEFINED
  /\ isResetWarningVisible = FALSE
  /\ showDefaultGroupChangedInfo = FALSE
  /\ appObjectId = UNDEFINED
  /\ requests = {}
  /\ nextId = 1
  /\ server \in {{PLAIN_UUID, ADMIN_UUID, SYSTEM_UUID}, {PLAIN_UUID, ADMIN_UUID, CUSTOM_UUID}}
  /\ groupReducer = [selectedGroup |-> NoGroup, selectedFrom |-> 0, isRecordLoading |-> FALSE,
                     error |-> UNDEFINED, systemGroup |-> NoGroup]
  /\ last = Event("Init", NoRequest, "none", FALSE, Cur, Cur)

\* Nothing but the Group view is at work.
GroupIdle == GroupInit /\ server = {PLAIN_UUID, ADMIN_UUID, SYSTEM_UUID}

Init == GroupInit /\ InventoryIdle /\ HelperIdle /\ ListingIdle /\ StoryIdle

----------------------------------------------------------------------------
\* Steps

\* A handler took the view from Cur to s: the render that follows, within the bounds.
Take(kind, req, outcome, s) ==
  LET s1 == Rerender(Cur, s)
  IN  /\ WithinBounds(s1)
      /\ Commit(s1)
      /\ last' = Event(kind, req, outcome, effectRuns(Cur, s), Cur, s1)
      /\ UNCHANGED <<server, outsideGroup>>

\* The router shows the Group view: fresh local state, first run of the effect.
Mount(gid) ==
  /\ ~mounted
  /\ Take("Mount", NoRequest, "none",
          [Cur EXCEPT !.mounted = TRUE, !.groupId = gid,
                      !.isResetWarningVisible = FALSE,
                      !.showDefaultGroupChangedInfo = FALSE])

\* The router leaves the Group view: the effect's cleanup runs, and the callbacks chained
\* on the calls in flight no longer belong to a view on screen.
Unmount ==
  /\ mounted
  /\ Take("Unmount", NoRequest, "none",
          [effectCleanup(Cur) EXCEPT !.mounted = FALSE, !.groupId = UNDEFINED,
                                     !.requests = {[r EXCEPT !.own = FALSE] : r \in @}])

\* The route changes to another group while the view stays mounted.
RouteChange(gid) ==
  /\ mounted
  /\ gid # groupId
  /\ Take("RouteChange", NoRequest, "none", [Cur EXCEPT !.groupId = gid])

\* The "Restore to default" button.
ClickRestore ==
  /\ mounted
  /\ Render(Cur).restore
  /\ Take("SetState", NoRequest, "none", [Cur EXCEPT !.isResetWarningVisible = TRUE])

\* WarningModal onClose.
CloseModal ==
  /\ mounted
  /\ Render(Cur).modal
  /\ Take("SetState", NoRequest, "none", [Cur EXCEPT !.isResetWarningVisible = FALSE])

\* WarningModal onConfirm.
ConfirmRestore ==
  /\ mounted
  /\ Render(Cur).modal
  /\ Take("ConfirmRestore",
          [id |-> Renumber(Cur).nextId, kind |-> "removeGroups",
           arg |-> systemGroupUuid(groupReducer),
           origin |-> "restoreDelete", own |-> TRUE],
          "none", onConfirm(Cur))

\* The close button of the "default group changed" alert.
CloseBanner ==
  /\ mounted
  /\ Render(Cur).banner
  /\ Take("SetState", NoRequest, "none", [Cur EXCEPT !.showDefaultGroupChangedInfo = FALSE])

\* The roles tab calls onDefaultGroupChanged, handed to it through the Outlet context.
OnDefaultGroupChanged(b) ==
  /\ mounted
  /\ Render(Cur).outlet
  /\ b # showDefaultGroupChangedInfo
  /\ Take("SetState", NoRequest, "none",
          [Cur EXCEPT !.showDefaultGroupChangedInfo = b])

\* The backend carries out a delete, or the call fails on its way.
ServerHandle(r, fails) ==
  /\ r \in requests
  /\ r.kind = "removeGroups"
  /\ r.resp = Pending
  /\ LET resp == IF fails THEN Failure ELSE respond(server, r)
     IN  /\ requests' = (requests \ {r}) \cup {[r EXCEPT !.resp = resp]}
         /\ server' = IF resp.status = "ok" THEN afterDelete(server, r.arg) ELSE server
  /\ last' = Event("ServerHandle", NoRequest, "none", FALSE, Cur, Cur)
  /\ UNCHANGED <<mounted, groupId, isResetWarningVisible, showDefaultGroupChangedInfo,
                 appObjectId, groupReducer, nextId, outsideGroup>>

\* A call settles: the store is updated and the callbacks chained on the call run.
Settle(r, resp) ==
  /\ r \in requests
  /\ resp \in Responses(server, r)
  /\ LET a == [r EXCEPT !.resp = resp]
     IN  Take("Settle", Descriptor(r), resp.status,
              afterRefetch(afterRemove(Resolve(Cur, a), a), a))

Next ==
  \/ \E gid \in RouteIds : Mount(gid)
  \/ Unmount
  \/ \E gid \in RouteIds : RouteChange(gid)
  \/ ClickRestore
  \/ CloseModal
  \/ ConfirmRestore
  \/ CloseBanner
  \/ \E b \in BOOLEAN : OnDefaultGroupChanged(b)
  \/ \E r \in requests, fails \in BOOLEAN : ServerHandle(r, fails)
  \/ \E r \in requests : \E resp \in Responses(server, r) : Settle(r, resp)

Spec == Init /\ [][Next]_vars

\* The view left on the route it was mounted with, and a backend nobody changes: the
\* router shows and leaves the view, the calls settle.
FixedRouteNext ==
  \/ \E gid \in RouteIds : Mount(gid)
  \/ Unmount
  \/ \E r \in requests : \E resp \in Responses(server, r) : Settle(r, resp)

FixedRouteSpec == Init /\ [][FixedRouteNext]_vars

----------------------------------------------------------------------------
\* Steps of the inventory actions

\* A caller creates an action.
Created(made) ==
  /\ network' = made.network
  /\ actions' = Append(actions, made.action)
  /\ UNCHANGED <<log, inventoryReducer, outsideInventory>>

CreateFetchInventoryGroups(permissions, config) ==
  /\ Created(fetchInventoryGroups(network, permissions, config))
  /\ UNCHANGED callerIds

CreateFetchInventoryGroupsDetails(groupsIds) ==
  /\ Created(fetchInventoryGroupsDetails(network, groupsIds))
  /\ callerIds' = groupsIds

\* The caller hands an action it created to the store.
DispatchAction(i) ==
  /\ i \in (1..Len(actions)) \ Dispatched
  /\ log' = Append(log, <<"dispatch", i>>)
  /\ inventoryReducer' = inventoryPending(inventoryReducer, actions[i].type)
  /\ UNCHANGED <<network, actions, callerIds, outsideInventory>>

\* The inventory API answers a call, or the call fails.
SettleCall(c, status) ==
  /\ c \in 1..Len(network)
  /\ network[c].status = "pending"
  /\ network' = [network EXCEPT ![c].status = status]
  /\ UNCHANGED <<actions, log, inventoryReducer, callerIds, outsideInventory>>

\* The resolution of a dispatched action's payload reaches the store.
Deliver(i) ==
  /\ i \in Dispatched \ Delivered
  /\ network[actions[i].payload].status # "pending"
  /\ log' = Append(log, <<"deliver", i>>)
  /\ inventoryReducer' = inventorySettled(inventoryReducer, actions[i].type,
                                          network[actions[i].payload].status)
  /\ UNCHANGED <<network, actions, callerIds, outsideInventory>>

InventoryInit == GroupIdle /\ InventoryIdle /\ HelperIdle /\ ListingIdle /\ StoryIdle

InventoryNext ==
  \/ \E config \in SampleConfigs :
       Len(actions) < MaxActions /\ CreateFetchInventoryGroups(SamplePermissions, config)
  \/ \E groupsIds \in SampleIds :
       Len(actions) < MaxActions /\ CreateFetchInventoryGroupsDetails(groupsIds)
  \/ \E i \in 1..Len(actions) : DispatchAction(i)
  \/ \E c \in 1..Len(network), status \in {"ok", "fail"} : SettleCall(c, status)
  \/ \E i \in 1..Len(actions) : Deliver(i)

InventorySpec == InventoryInit /\ [][InventoryNext]_inventoryVars

\* fetchInventoryGroupsDetails alone, given any array of at most MaxIds items.
DetailsNext ==
  \E groupsIds \in Arrays(MaxIds) :
    actions = <<>> /\ CreateFetchInventoryGroupsDetails(groupsIds)

DetailsSpec == InventoryInit /\ [][DetailsNext]_inventoryVars

----------------------------------------------------------------------------
\* Steps of processResourceDefinitions

\* The helper returns.
Process ==
  /\ ~helperCall.done
  /\ helperCall' = [helperCall EXCEPT
                      !.done = TRUE,
                      !.returned = processResourceDefinitions(helperCall.resourceDefinitions)]
  /\ UNCHANGED outsideHelper

HelperInit ==
  /\ GroupIdle /\ InventoryIdle /\ ListingIdle /\ StoryIdle
  /\ helperCall \in [resourceDefinitions : Arguments, done : {FALSE}, returned : {<<>>}]

HelperNext == Process

HelperSpec == HelperInit /\ [][HelperNext]_helperVars

----------------------------------------------------------------------------
\* Steps of a listing

\* The user changes a filter: the first page under the new filters.
ChangeFilters(filters) ==
  /\ filters # listing.filters
  /\ listing' = setFilters(listing, filters)
  /\ requested' = requested \cup {<<filters, 0>>}
  /\ UNCHANGED outsideListing

\* The user picks a page.
ChangePage(offset) ==
  /\ offset # listing.offset
  /\ listing' = setPagination(listing, offset)
  /\ requested' = requested \cup {<<listing.filters, offset>>}
  /\ UNCHANGED outsideListing

\* The user navigates away from the listing and comes back to it.
LeaveListing ==
  /\ listing' = resetListing
  /\ requested' = {<<NoFilters, 0>>}
  /\ UNCHANGED outsideListing

ListingInit == GroupIdle /\ InventoryIdle /\ HelperIdle /\ ListingOpen /\ StoryIdle

ListingNext ==
  \/ \E filters \in FilterSets : ChangeFilters(filters)
  \/ \E offset \in Offsets : ChangePage(offset)
  \/ LeaveListing

ListingSpec == ListingInit /\ [][ListingNext]_listingVars

----------------------------------------------------------------------------
\* Steps of a story

\* Storybook renders the story: the decorator provides the contexts, the Group view reads
\* them through the mocked hooks.
RenderStory ==
  /\ ~rendered.done
  /\ rendered' = [done |-> TRUE,
                  permissions |-> decoratorPermissions(story.parameters, story.args),
                  environment |-> getEnvironment(story.parameters.chrome),
                  isProd |-> isProd(story.parameters.chrome),
                  isBeta |-> isBeta(story.parameters.chrome),
                  tabItems |-> tabItems(PLAIN_UUID, isBeta(story.parameters.chrome),
                                        story.parameters.featureFlags)]
  /\ UNCHANGED <<story, outsideStory>>

StoryInit ==
  /\ GroupIdle /\ InventoryIdle /\ HelperIdle /\ ListingIdle
  /\ story \in Stories
  /\ rendered = NotRendered

StoryNext == RenderStory

StorySpec == StoryInit /\ [][StoryNext]_storyVars

\* The Group view renders over the store it was given.
RenderView ==
  /\ ~rendered.done
  /\ rendered' = [done |-> TRUE, screen |-> Render(story)]
  /\ UNCHANGED <<story, outsideStory>>

RenderInit ==
  /\ GroupIdle /\ InventoryIdle /\ HelperIdle /\ ListingIdle
  /\ story \in Views
  /\ rendered = NotRendered

RenderNext == RenderView

RenderSpec == RenderInit /\ [][RenderNext]_storyVars

----------------------------------------------------------------------------
\* Properties

\* The last step was the resolution of a call of this kind with this outcome.
Settled(kind, outcome) ==
  last.kind = "Settle" /\ last.req.kind = kind /\ last.outcome = outcome

\* The identifier a run of the effect has to fetch in the state it leaves.
FetchId == IF groupId = DEFAULT_ACCESS_GROUP_ID THEN groupReducer.systemGroup.uuid ELSE groupId

\* The call issued last.
Newest == CHOOSE r \in requests : r.id = nextId - 1

\* C1: when the fetch of a group has settled with the backend's answer that no group has
\* the identifier, the view shows the "group not found" page and none of the detail
\* layout (toolbar, tabs, outlet).
C1_NotFoundPage ==
  (mounted /\ Settled("fetchGroup", "notfound")) =>
    /\ Render(Cur).page = "notFound"
    /\ ~Render(Cur).toolbar /\ ~Render(Cur).tabs /\ ~Render(Cur).outlet

C1_Witness ==
  mounted /\ Settled("fetchGroup", "notfound") /\ last.req.arg = groupId

\* C3: the payload of a fulfilled fetch of a group is what the view's selected group
\* holds once its resolution has reached the dispatcher, also when a fetch of the same
\* group that was issued later has resolved before it.
C3_LastResolvedWins ==
  Settled("fetchGroup", "ok") =>
    /\ groupReducer.selectedFrom = last.req.id
    /\ group(groupReducer) = GroupRecord(last.req.arg)
    /\ ~isGroupLoading(groupReducer)

C3_Witness ==
  last.raced /\ groupReducer.selectedFrom = last.req.id

\* C4: a run of the effect that has an identifier to fetch leaves the selected group
\* loading in the same step, and the selected group leaves the loading state only in a
\* step in which the resolution of a fetch of a group arrives.
C4_DispatchLoads ==
  (last.effect /\ FetchId # UNDEFINED) =>
    isGroupLoading(groupReducer) /\ groupReducer.error = UNDEFINED

C4_LoadingThenSettled ==
  /\ []C4_DispatchLoads
  /\ [][(isGroupLoading(groupReducer) /\ ~isGroupLoading(groupReducer'))
          => (last'.kind = "Settle" /\ last'.req.kind = "fetchGroup")]_vars

C4_Witness ==
  /\ Settled("fetchGroup", "ok")
  /\ ~isGroupLoading(groupReducer)
  /\ \E r \in requests : r.kind = "fetchSystemGroup"

\* C5: a re-fetch of the restore flow is dispatched only in the step in which the
\* resolution of a delete of the restore flow arrives fulfilled: not at the confirmation,
\* not while the delete is in flight, not when it is rejected.
C5_RefetchAfterDelete ==
  [][\A f \in requests' :
       (f.origin = "restoreRefetch"
        /\ \A q \in requests : ~(q.id = f.id /\ q.origin = f.origin))
       => (last'.kind = "Settle" /\ last'.req.origin = "restoreDelete"
           /\ last'.outcome = "ok")]_vars

C5_Witness ==
  /\ last.kind = "Settle" /\ last.req.origin = "restoreDelete" /\ last.outcome = "ok"
  /\ \E f \in requests : f.origin = "restoreRefetch"

\* C6, as claimed: once the delete and the re-fetch of a restore have resolved, the
\* "default group changed" banner is on screen.
C6_BannerShownAfterRestore ==
  (last.kind = "Settle" /\ last.req.origin = "restoreRefetch" /\ last.outcome = "ok"
   /\ last.req.own)
    => Render(Cur).banner

\* C6, amended: once the delete and the re-fetch of a restore have resolved, the banner
\* flag of the view that confirmed is false and the banner is not on screen.
C6_BannerHiddenAfterRestore ==
  (last.kind = "Settle" /\ last.req.origin = "restoreRefetch" /\ last.outcome = "ok"
   /\ last.req.own)
    => (mounted /\ ~showDefaultGroupChangedInfo /\ ~Render(Cur).banner)

C6_Witness ==
  /\ last.kind = "Settle" /\ last.req.origin = "restoreRefetch" /\ last.outcome = "ok"
  /\ last.req.own
  /\ Render(Cur).page = "detail"

\* C7, as claimed: when the redirect to the roles route of the sentinel has been issued,
\* the delete of the restore has completed.
C7_NavigateAfterDelete ==
  last.navigate = GroupDetailRoles(DEFAULT_ACCESS_GROUP_ID) =>
    ~\E d \in requests : d.origin = "restoreDelete" /\ d.id = last.req.id

\* C7, amended: the redirect to the roles route of the sentinel is issued by the
\* confirmation itself, in the step that dispatches the delete and with the delete still
\* unresolved; the resolution of a call issues no redirect.
C7_NavigateAtConfirm ==
  /\ last.kind = "ConfirmRestore" =>
       /\ last.navigate = GroupDetailRoles(DEFAULT_ACCESS_GROUP_ID)
       /\ groupId = DEFAULT_ACCESS_GROUP_ID
       /\ \E d \in requests :
            d.id = last.req.id /\ d.kind = "removeGroups" /\ d.resp = Pending
  /\ last.kind # "ConfirmRestore" => last.navigate = NO_PATH

C7_Witness ==
  last.kind = "ConfirmRestore" /\ last.effect /\ last.req.arg = CUSTOM_UUID

C9_SentinelOnly ==
  mounted =>
    /\ Render(Cur).page = "notFound" <=> groupReducer.error = BAD_UUID
    /\ groupReducer.error # BAD_UUID =>
         /\ Render(Cur).page = "detail" /\ Render(Cur).toolbar /\ Render(Cur).outlet
         /\ ~groupReducer.isRecordLoading =>
              Render(Cur).title = groupReducer.selectedGroup.uuid

C9_Witness ==
  /\ mounted
  /\ groupReducer.error = GENERIC_ERROR
  /\ groupReducer.selectedGroup.uuid # UNDEFINED
  /\ Render(Cur).title = groupReducer.selectedGroup.uuid

\* C10: no fetch of a group is in flight for the sentinel or for no identifier; a run of
\* the effect fetches the system group's UUID on the sentinel route, nothing while that
\* UUID is unknown, and the route's groupId on any other route.
C10_NeverFetchesSentinel ==
  /\ \A r \in requests :
       r.kind = "fetchGroup" => r.arg \notin {DEFAULT_ACCESS_GROUP_ID, UNDEFINED}
  /\ last.effect =>
       IF FetchId = UNDEFINED
         THEN Newest.kind = "fetchSystemGroup" /\ Newest.origin = "effect"
         ELSE Newest.kind = "fetchGroup" /\ Newest.arg = FetchId

C10_Witness ==
  /\ last.effect
  /\ groupId = DEFAULT_ACCESS_GROUP_ID
  /\ Newest.kind = "fetchGroup"
  /\ Newest.arg = groupReducer.systemGroup.uuid

\* The call a created action carries.
CallOf(i) == network[actions[i].payload]

\* The entity family of the k-th entry of the dispatcher's history.
FamilyAt(k) == actions[log[k][2]].type

\* C11: every created inventory action has made one call of its own to the inventory
\* API, whether or not it has been dispatched and whatever list it was given, and is a
\* descriptor {type, meta, payload} whose payload is that call; the step that creates the
\* action makes the call, pending, and dispatches nothing.
C11_OneCallEach ==
  /\ Len(network) = Len(actions)
  /\ \A i \in 1..Len(actions) :
       /\ DOMAIN actions[i] = {"type", "meta", "payload"}
       /\ actions[i].payload = i
       /\ actions[i].type = FETCH_INVENTORY_GROUPS =>
            /\ CallOf(i).api = "apiResourceTypeGetResourceTypeGroupsList"
            /\ CallOf(i).params = actions[i].meta.config
       /\ actions[i].type = FETCH_INVENTORY_GROUPS_DETAILS =>
            CallOf(i).api = "apiGroupGetGroupsById"

C11_CallAtCreation ==
  /\ []C11_OneCallEach
  /\ [][Len(actions') > Len(actions) =>
          /\ Len(network') = Len(network) + 1
          /\ network'[Len(network')].status = "pending"
          /\ log' = log]_inventoryVars

C11_Witness ==
  \E i \in 1..Len(actions) :
    /\ actions[i].type = FETCH_INVENTORY_GROUPS_DETAILS
    /\ actions[i].meta.groupsIds = <<String(<<>>), Undefined>>
    /\ i \notin Dispatched
    /\ CallOf(i).status = "pending"
    /\ CallOf(i).params.groupIdList = <<>>

\* The non-empty identifiers of an array, in their order.
RECURSIVE NonEmptyIds(_)
NonEmptyIds(ids) ==
  IF ids = <<>> THEN <<>>
  ELSE (IF Head(ids).type = "string" /\ Head(ids).chars # <<>> THEN <<Head(ids)>> ELSE <<>>)
       \o NonEmptyIds(Tail(ids))

\* C12: the groupIdList of the call made by fetchInventoryGroupsDetails is the array it
\* was given without its empty strings, nulls and undefineds, in the same order and with
\* the same repetitions; no empty identifier is in it.
C12_NonEmptyIdsOnly ==
  \A i \in 1..Len(actions) :
    actions[i].type = FETCH_INVENTORY_GROUPS_DETAILS =>
      /\ CallOf(i).params.groupIdList = NonEmptyIds(actions[i].meta.groupsIds)
      /\ \A k \in 1..Len(CallOf(i).params.groupIdList) :
           /\ CallOf(i).params.groupIdList[k].type = "string"
           /\ Len(CallOf(i).params.groupIdList[k].chars) > 0

C12_Witness ==
  /\ Len(actions) = 1
  /\ actions[1].meta.groupsIds = <<String(<<"b", "c">>), Null, String(<<"b", "c">>)>>
  /\ CallOf(1).params.groupIdList = <<String(<<"b", "c">>), String(<<"b", "c">>)>>

\* The k-th entry of the dispatcher's history is the rejection of a call.
RejectedAt(k) ==
  log[k][1] = "deliver" /\ network[actions[log[k][2]].payload].status = "fail"

\* C13, as claimed: no more calls than actions created, and once the rejection of a call
\* has reached the store the family is errored for as long as no action of the family is
\* dispatched.
C13_ErroredUntilDispatch ==
  /\ Len(network) <= Len(actions)
  /\ \A k \in 1..Len(log) :
       (RejectedAt(k)
        /\ ~\E m \in (k + 1)..Len(log) :
              log[m][1] = "dispatch" /\ FamilyAt(m) = FamilyAt(k))
         => inventoryReducer[FamilyAt(k)] = "errored"

\* C13, amended: no more calls than actions created, and once the rejection of a call has
\* reached the store the family is errored for as long as no action of the family is
\* dispatched and no resolution of an action of the family dispatched before reaches the
\* store.
C13_ErroredUntilNextEvent ==
  /\ Len(network) <= Len(actions)
  /\ \A k \in 1..Len(log) :
       (RejectedAt(k)
        /\ ~\E m \in (k + 1)..Len(log) : FamilyAt(m) = FamilyAt(k))
         => inventoryReducer[FamilyAt(k)] = "errored"

C13_Witness ==
  /\ Len(log) = 3
  /\ RejectedAt(2)
  /\ log[3][1] = "dispatch" /\ FamilyAt(3) # FamilyAt(2)
  /\ inventoryReducer[FamilyAt(2)] = "errored"
  /\ Len(network) = 2

\* The numbers of the calls in flight.
InFlight(rs) == {r.id : r \in rs}

\* C14: unmounting the Group view aborts none of the calls in flight, and the resolution
\* of a call whose view has unmounted is applied to the store like any other.
C14_AppliedAfterUnmount ==
  (last.kind = "Settle" /\ ~last.req.own /\ last.req.kind = "fetchGroup") =>
    CASE last.outcome = "ok" ->
           /\ groupReducer.selectedGroup = GroupRecord(last.req.arg)
           /\ groupReducer.selectedFrom = last.req.id
           /\ ~groupReducer.isRecordLoading
      [] last.outcome = "notfound" -> groupReducer.error = BAD_UUID
      [] OTHER -> groupReducer.error = GENERIC_ERROR

C14_NoCancellation ==
  /\ []C14_AppliedAfterUnmount
  /\ [][last'.kind = "Unmount" => InFlight(requests') = InFlight(requests)]_vars

C14_Witness ==
  /\ ~mounted
  /\ last.kind = "Settle" /\ ~last.req.own /\ last.req.kind = "fetchGroup"
  /\ last.outcome = "ok"
  /\ groupReducer.selectedGroup.uuid = last.req.arg

\* C16, as claimed: while a fetch of a group has not settled the selected group is
\* loading.
C16_LoadingWhileInFlight ==
  (\E r \in requests : r.kind = "fetchGroup") => isGroupLoading(groupReducer)

\* C16, amended: while a fetch of a group has not settled, only a step in which a fetch of
\* a group settles (that one or another one in flight beside it) takes the selected group
\* out of the loading state, changes the group held or sets an error, and every other
\* step leaves the fetch in flight.
C16_NoTimeout ==
  [][((\E r \in requests : r.kind = "fetchGroup")
      /\ isGroupLoading(groupReducer)
      /\ ~(last'.kind = "Settle" /\ last'.req.kind = "fetchGroup"))
       => /\ isGroupLoading(groupReducer')
          /\ group(groupReducer') = group(groupReducer)
          /\ groupReducer'.error \in {groupReducer.error, UNDEFINED}
          /\ \A r \in requests :
               r.kind = "fetchGroup" =>
                 \E q \in requests' : q.id = r.id /\ q.kind = r.kind /\ q.arg = r.arg]_vars

C16_Witness ==
  /\ last.kind = "Settle" /\ last.req.kind = "fetchSystemGroup"
  /\ isGroupLoading(groupReducer)
  /\ \E r \in requests : r.kind = "fetchGroup" /\ r.id < last.req.id

\* C20, as claimed: while the restore confirmation is open systemGroupUuid is defined, and
\* no removeGroups call is made for an undefined identifier.
C20_RemoveDefined ==
  /\ (mounted /\ Render(Cur).modal) => systemGroupUuid(groupReducer) # UNDEFINED
  /\ \A r \in requests : r.kind = "removeGroups" => r.arg # UNDEFINED

\* C15: a change of a listing's filters leaves its offset at zero, and the offset the
\* listing holds is always that of a page the user asked for under the filters it holds.
C15_OffsetRequested == <<listing.filters, listing.offset>> \in requested

C15_FiltersResetOffset ==
  /\ []C15_OffsetRequested
  /\ [][listing'.filters # listing.filters => listing'.offset = 0]_listingVars

C15_Witness ==
  /\ listing.filters = [name |-> "adm"]
  /\ listing.offset = 0
  /\ <<NoFilters, 2 * Limit>> \in requested
  /\ <<[name |-> "adm"], 2 * Limit>> \notin requested

\* The service-accounts flag of the story's environment.
EnvironmentFlag ==
  IF story.parameters.chrome.environment = "prod"
    THEN story.parameters.featureFlags[STABLE_FLAG]
    ELSE story.parameters.featureFlags[BETA_FLAG]

\* C17: the tabs of the Group view are Roles, then Members, then Service accounts exactly
\* when the service-accounts flag of the environment is on: the beta flag in a beta
\* environment, the stable flag otherwise.
C17_TabItems ==
  rendered.done =>
    /\ Len(rendered.tabItems) = IF EnvironmentFlag THEN 3 ELSE 2
    /\ rendered.tabItems[1].title = "Roles" /\ rendered.tabItems[1].to = "roles"
    /\ rendered.tabItems[2].title = "Members" /\ rendered.tabItems[2].to = "members"
    /\ EnvironmentFlag =>
         /\ rendered.tabItems[3].title = "Service accounts"
         /\ rendered.tabItems[3].to = "service-accounts"
    /\ \A k \in 1..Len(rendered.tabItems) :
         /\ rendered.tabItems[k].eventKey = k - 1
         /\ rendered.tabItems[k].name = <<"groups", PLAIN_UUID, rendered.tabItems[k].to>>

C17_Witness ==
  /\ rendered.done
  /\ rendered.isProd
  /\ story.parameters.featureFlags[BETA_FLAG]
  /\ ~story.parameters.featureFlags[STABLE_FLAG]
  /\ Len(rendered.tabItems) = 2

\* C18, as claimed: each permission the story sees is the interactive arg if one is set,
\* else the story's parameters.permissions value if one is set, else false.
C18_ArgsOverParameters ==
  rendered.done =>
    \A k \in PermissionNames :
      rendered.permissions[k] =
        IF k \in DOMAIN story.args THEN story.args[k]
        ELSE IF k \in DOMAIN story.parameters.permissions
               THEN story.parameters.permissions[k]
               ELSE FALSE

\* C19: under the mocked Chrome context isProd() holds exactly when the environment is
\* 'prod' and isBeta() exactly when it is not, so one of the two holds and never both.
C19_ProdOrBeta ==
  rendered.done =>
    /\ rendered.environment = story.parameters.chrome.environment
    /\ rendered.isProd <=> rendered.environment = "prod"
    /\ rendered.isBeta <=> rendered.environment # "prod"
    /\ rendered.isBeta # rendered.isProd

C19_Witness ==
  /\ rendered.done
  /\ rendered.environment = "stage"
  /\ rendered.isBeta /\ ~rendered.isProd

\* C21: on a fixed route and with a backend that keeps its system group, the effect runs
\* at the mount and, while the view stays mounted, only in the step in which a fulfilled
\* fetchSystemGroup takes systemGroupUuid from undefined to a UUID; once defined the UUID
\* never changes, so there is at most one such step and the resolutions of the effect's
\* own fetchSystemGroup calls do not run it again.
C21_RunsAtMount == last.kind = "Mount" => last.effect

C21_EffectQuiesces ==
  /\ []C21_RunsAtMount
  /\ [][(last'.effect /\ last'.kind # "Mount")
          => /\ Settled("fetchSystemGroup", "ok")'
             /\ systemGroupUuid(groupReducer) = UNDEFINED
             /\ systemGroupUuid(groupReducer') # UNDEFINED]_vars
  /\ [][systemGroupUuid(groupReducer) # UNDEFINED
          => systemGroupUuid(groupReducer') = systemGroupUuid(groupReducer)]_vars

C21_Witness ==
  /\ mounted
  /\ Settled("fetchSystemGroup", "ok") /\ last.req.origin = "effect" /\ last.req.own
  /\ ~last.effect
  /\ systemGroupUuid(groupReducer) # UNDEFINED
  /\ \E r \in requests : r.kind = "fetchGroup" /\ r.arg = systemGroupUuid(groupReducer)

\* The number of calls of a kind in flight.
CallsOf(rs, kind) == Cardinality({r \in rs : r.kind = kind})

\* C22: a step in which the effect runs puts one fetchSystemGroup in flight and, when
\* there is an identifier to fetch, one fetchGroup, which is the call issued last; on a
\* route other than the sentinel's that fetchGroup is for the route's groupId at every
\* run, also at the run caused by a change of systemGroupUuid alone.
C22_OneFetchEach ==
  [][last'.effect =>
       /\ CallsOf(requests', "fetchSystemGroup")
            = CallsOf(requests, "fetchSystemGroup") + 1
              - (IF Settled("fetchSystemGroup", "ok")' THEN 1 ELSE 0)
       /\ CallsOf(requests', "fetchGroup")
            = CallsOf(requests, "fetchGroup") + (IF FetchId' # UNDEFINED THEN 1 ELSE 0)
       /\ groupId' # DEFAULT_ACCESS_GROUP_ID =>
            /\ Newest'.kind = "fetchGroup" /\ Newest'.arg = groupId'
            /\ Newest'.origin = "effect"]_vars

C22_Witness ==
  /\ last.effect /\ Settled("fetchSystemGroup", "ok")
  /\ groupId = CUSTOM_UUID
  /\ CallsOf({r \in requests : r.arg = CUSTOM_UUID /\ r.own}, "fetchGroup") = 2

\* C23: the confirmation of the restore leaves, in its own step, the modal closed, the
\* route at the roles route of the sentinel and the delete dispatched; the resolution of
\* a call, fulfilled or rejected, neither changes the modal's flag nor the route, and
\* the modal opens by a handler of the view only.
C23_ConfirmCloses ==
  last.kind = "ConfirmRestore" =>
    /\ ~isResetWarningVisible /\ ~Render(Cur).modal
    /\ last.navigate = GroupDetailRoles(DEFAULT_ACCESS_GROUP_ID)
    /\ groupId = DEFAULT_ACCESS_GROUP_ID
    /\ \E d \in requests : d.id = last.req.id /\ d.origin = "restoreDelete"

C23_ConfirmIsFinal ==
  /\ []C23_ConfirmCloses
  /\ [][last'.kind \in {"Settle", "ServerHandle"}
          => /\ isResetWarningVisible' = isResetWarningVisible
             /\ groupId' = groupId
             /\ last'.navigate = NO_PATH]_vars
  /\ [][(~isResetWarningVisible /\ isResetWarningVisible') => last'.kind = "SetState"]_vars

C23_Witness ==
  /\ mounted
  /\ Settled("removeGroups", "fail") /\ last.req.origin = "restoreDelete" /\ last.req.own
  /\ ~isResetWarningVisible
  /\ groupId = DEFAULT_ACCESS_GROUP_ID

\* The steps of the restore flow: the confirmation, the backend's handling of the
\* delete, the resolutions of the calls.
FlowSteps == {"ConfirmRestore", "ServerHandle", "Settle"}

\* C24: of the steps of the restore flow only the fulfilled resolution of the re-fetch,
\* which is dispatched once the delete has resolved fulfilled, writes the banner flag;
\* the confirmation, the delete's resolution and a rejected resolution leave the flag
\* as it was.
C24_FlagWrittenLast ==
  [][last'.kind \in FlowSteps =>
       \/ showDefaultGroupChangedInfo' = showDefaultGroupChangedInfo
       \/ /\ Settled("fetchSystemGroup", "ok")'
          /\ last'.req.origin = "restoreRefetch" /\ last'.req.own
          /\ ~showDefaultGroupChangedInfo']_vars

C24_Witness ==
  /\ mounted
  /\ Settled("fetchSystemGroup", "fail")
  /\ last.req.origin = "restoreRefetch" /\ last.req.own
  /\ showDefaultGroupChangedInfo

\* C25: in the detail layout the restore control is on screen exactly when the group is
\* a platform default group that is not the system's, and the actions menu (edit,
\* delete) exactly when the group is neither the platform default nor the admin default
\* group; the two are never on screen together and a default group has no actions menu.
C25_RestoreOrMenu ==
  (rendered.done /\ rendered.screen.page = "detail") =>
    LET g == story.groupReducer.selectedGroup
    IN  /\ rendered.screen.restore <=> (g.platform_default /\ ~g.system)
        /\ rendered.screen.dropdown <=> (~g.platform_default /\ ~g.admin_default)
        /\ ~(rendered.screen.restore /\ rendered.screen.dropdown)
        /\ (g.platform_default \/ g.admin_default) => ~rendered.screen.dropdown

C25_Witness ==
  /\ rendered.done /\ rendered.screen.page = "detail"
  /\ story.groupReducer.selectedGroup.admin_default
  /\ ~rendered.screen.dropdown /\ ~rendered.screen.restore

\* C26: with no Group view on screen the chrome app object id is undefined; with the
\* view on screen it is the identifier the last run of the effect had to fetch, and
\* undefined when that run had none (sentinel route, system group's UUID unknown).
C26_AppObjectId ==
  /\ ~mounted => appObjectId = UNDEFINED
  /\ mounted => appObjectId = FetchId
  /\ (mounted /\ groupId = DEFAULT_ACCESS_GROUP_ID
      /\ systemGroupUuid(groupReducer) = UNDEFINED) => appObjectId = UNDEFINED

C26_Witness ==
  /\ mounted /\ groupId = DEFAULT_ACCESS_GROUP_ID
  /\ last.effect /\ Settled("fetchSystemGroup", "ok") /\ last.req.origin = "restoreRefetch"
  /\ appObjectId = SYSTEM_UUID

\* The entries of an array that are no identifiers: empty strings, nulls, undefineds.
EmptyEntries(ids) ==
  {k \in 1..Len(ids) : ids[k].type # "string" \/ ids[k].chars = <<>>}

\* C27: the meta.groupsIds of the action fetchInventoryGroupsDetails returns is the array
\* the caller passed, empty entries included and in the caller's order, and the
\* groupIdList of the call is that array without its empty entries: the two differ in
\* length by the number of empty entries and are equal exactly when there is none.
C27_MetaUnfiltered ==
  (actions # <<>> /\ actions[Len(actions)].type = FETCH_INVENTORY_GROUPS_DETAILS) =>
    LET a == actions[Len(actions)]
        sent == CallOf(Len(actions)).params.groupIdList
    IN  /\ a.meta.groupsIds = callerIds
        /\ DOMAIN a.meta = {"groupsIds"}
        /\ Len(a.meta.groupsIds) = Len(sent) + Cardinality(EmptyEntries(callerIds))
        /\ sent = SelectSeq(callerIds, LAMBDA item : item.type = "string" /\ item.chars # <<>>)
        /\ (a.meta.groupsIds = sent) <=> (EmptyEntries(callerIds) = {})

C27_Witness ==
  /\ Len(actions) = 1
  /\ callerIds = <<String(<<>>), String(<<"a">>), Null>>
  /\ actions[1].meta.groupsIds = <<String(<<>>), String(<<"a">>), Null>>
  /\ CallOf(1).params.groupIdList = <<String(<<"a">>)>>

\* What a value adds to the list returned: its elements if it is an array, else itself.
Contribution(value) == IF value.type = "array" THEN value.items ELSE <<value>>

\* The number of elements the values before the k-th add.
RECURSIVE Before(_, _)
Before(values, k) ==
  IF k = 1 THEN 0 ELSE Before(values, k - 1) + Len(Contribution(values[k - 1]))

\* C28: processResourceDefinitions returns the empty list for null, undefined and the
\* empty array; for any other array it returns, in the order of the definitions, what
\* each attributeFilter.value adds: the elements of an array value as they are (an
\* array among them stays an array), any other value itself.
C28_Concatenation ==
  (helperCall # <<>> /\ helperCall.done) =>
    LET rd == helperCall.resourceDefinitions
        out == helperCall.returned
    IN  IF rd \in {Null, Undefined} \/ rd = ArrayOf(<<>>)
          THEN out = <<>>
          ELSE LET values == [k \in 1..Len(rd.items) |-> rd.items[k].attributeFilter.value]
               IN  /\ Len(out) = Before(values, Len(values) + 1)
                   /\ \A k \in 1..Len(values) :
                        \A j \in 1..Len(Contribution(values[k])) :
                          out[Before(values, k) + j] = Contribution(values[k])[j]

C28_Witness ==
  /\ helperCall # <<>> /\ helperCall.done
  /\ helperCall.resourceDefinitions =
       ArrayOf(<<[attributeFilter |-> [value |-> String(<<"a">>)]],
                 [attributeFilter |->
                    [value |-> ArrayOf(<<ArrayOf(<<String(<<"a">>)>>), Null>>)]]>>)
  /\ helperCall.returned = <<String(<<"a">>), ArrayOf(<<String(<<"a">>)>>), Null>>

====
